---- MODULE Spec2Model ----
(***************************************************************************)
(* A model of streamlit_app.py: one browser session of the combined        *)
(* "Document Q&A" + "Disease Awareness Chatbot" Streamlit script.          *)
(*                                                                         *)
(* Streamlit re-executes the whole script, top to bottom, on every user    *)
(* interaction.  A script run is modelled from the interaction that        *)
(* triggers it up to the next point where the script blocks on the         *)
(* chat-completion collaborator; the collaborator's answer (a stream that  *)
(* ends or fails) resumes it.  Texts are TLA+ strings, so that len, slices *)
(* and concatenation are computed as Python computes them.  A run, once    *)
(* started, runs to its end, its st.stop() or an uncaught exception: the   *)
(* session is sequential and no interaction cuts a run short.              *)
(***************************************************************************)
EXTENDS Integers, Sequences, FiniteSets, TLC

VARIABLES
    pc,               \* where the session's script is: see PcValues
    openai_api_key,   \* sidebar text_input (line 24)
    uploaded_file,    \* file_uploader value (line 98), NoFile or a file
    question,         \* text_area value (line 117)
    prompt,           \* chat_input value of the current run (line 177), None or a text
    has_messages,     \* "disease_messages" in st.session_state
    disease_messages, \* st.session_state.disease_messages, the transcript
    document_text,    \* the script-local document_text (lines 105, 109)
    response_text,    \* the script-local response_text (lines 191, 193)
    doc_outbound,     \* messages= of the document request of the current run (line 138)
    chat_outbound,    \* messages= of the chat request of the current run (line 187)
    stream,           \* what the collaborator answered to the request last consumed
    doc_status,       \* what the document tab displayed: none / success / silent / error
    doc_requests,     \* requests issued at line 136 during the current run
    chat_requests,    \* requests issued at line 185 during the current run
    ingests,          \* calls of extract_text_from_uploaded_file during the current run
    trigger,          \* the user interaction that started the current run
    turn_result,      \* how the chat turn of the current run ended: none / Completed / Failed
    turn_base,        \* len(disease_messages) when the current run's chat turn was submitted
    turns,            \* chat turns finished so far in the session
    last_failure,     \* position and description of the latest failed turn's message
    t_text, t_max, t_out, t_called   \* a direct call of trim_text_for_prompt

svars == <<pc, openai_api_key, uploaded_file, question, prompt, has_messages,
           disease_messages, document_text, response_text, doc_outbound,
           chat_outbound, stream, doc_status, doc_requests, chat_requests,
           ingests, trigger, turn_result, turn_base, turns, last_failure>>
tvars == <<t_text, t_max, t_out, t_called>>
vars == <<svars, tvars>>

None == "None"

\* uploaded_file is None: no file in the uploader
NoFile == [name |-> None, raw |-> None]

(***************************************************************************)
(* Bounds of the model.                                                    *)
(***************************************************************************)
MaxTurns == 2       \* chat turns submitted in one session
MaxFragments == 2   \* fragments the collaborator streams for one request
MaxTextLen == 3     \* length of the texts trim_text_for_prompt is called on

Min(a, b) == IF a < b THEN a ELSE b
Max(a, b) == IF a < b THEN b ELSE a

(***************************************************************************)
(* Python string helpers.                                                  *)
(***************************************************************************)
\* text[:n]
SlicePrefix(text, n) ==
    LET stop == IF n >= 0 THEN Min(n, Len(text)) ELSE Max(Len(text) + n, 0)
    IN SubSeq(text, 1, stop)

\* s.endswith(suffix)
EndsWith(s, suffix) ==
    /\ Len(s) >= Len(suffix)
    /\ SubSeq(s, Len(s) - Len(suffix) + 1, Len(s)) = suffix

Message(role, content) == [role |-> role, content |-> content]

Return(v) == [raised |-> FALSE, value |-> v]
Raise(e) == [raised |-> TRUE, value |-> e]

(***************************************************************************)
(* trim_text_for_prompt (lines 77-84).                                     *)
(***************************************************************************)
TruncationMarker == "\n\n...[truncated]"

DefaultMaxChars == 30000

trim_text_for_prompt_off_by_one(text, max_chars) ==
    IF Len(text) >= max_chars
    THEN SlicePrefix(text, max_chars) \o TruncationMarker
    ELSE text

trim_text_for_prompt(text, max_chars) ==
    IF Len(text) > max_chars
    THEN SlicePrefix(text, max_chars) \o TruncationMarker
    ELSE text

(***************************************************************************)
(* Uploaded files.  A file is a name and its bytes; the bytes are one of a *)
(* few contents, each with what the decoders make of it: bytes.decode with *)
(* errors="replace" always yields a text, pandas either yields a table     *)
(* (rows of cells, the header first) or raises.                            *)
(***************************************************************************)
Names == {"notes.txt", "README.MD", "data.csv", "DATA.CSV", "book.xlsx",
          "old.xls", "scan.pdf", "LICENSE"}

Raws == {"table_text", "empty", "workbook"}

AllFiles == [name : Names, raw : Raws]

\* str.lower() on the file names above
Lower(name) ==
    CASE name = "README.MD" -> "readme.md"
      [] name = "DATA.CSV" -> "data.csv"
      [] name = "LICENSE" -> "license"
      [] OTHER -> name

\* raw.decode("utf-8", errors="replace"): undecodable bytes become U+FFFD, shown as ?
Utf8Decode(raw) ==
    CASE raw = "table_text" -> "a,b\n1,2"
      [] raw = "empty" -> ""
      [] raw = "workbook" -> "PK??"

Table2x2 == << <<"a", "b">>, <<"1", "2">> >>

\* pd.read_csv(BytesIO(raw))
read_csv(raw) ==
    CASE raw = "table_text" -> Return(Table2x2)
      [] raw = "empty" -> Raise("No columns to parse from file")
      [] raw = "workbook" -> Raise("Error tokenizing data")

\* pd.read_excel(BytesIO(raw), engine="openpyxl")
read_excel(raw) ==
    CASE raw = "workbook" -> Return(Table2x2)
      [] OTHER -> Raise("File is not a zip file")

RECURSIVE JoinCells(_)
JoinCells(row) ==
    IF Len(row) = 0 THEN ""
    ELSE IF Len(row) = 1 THEN row[1]
    ELSE row[1] \o "," \o JoinCells(Tail(row))

\* df.to_csv(index=False): one line per row, the header first
RECURSIVE to_csv(_)
to_csv(df) ==
    IF Len(df) = 0 THEN "" ELSE JoinCells(Head(df)) \o "\n" \o to_csv(Tail(df))

(***************************************************************************)
(* extract_text_from_uploaded_file (lines 44-75).  The result is what the  *)
(* call does: it returns a text or lets an exception out.                  *)
(***************************************************************************)
extract_text_excel_unguarded(f) ==
    LET fname == Lower(f.name)
    IN IF EndsWith(fname, ".txt") \/ EndsWith(fname, ".md")
       THEN Return(Utf8Decode(f.raw))
       ELSE IF EndsWith(fname, ".csv")
       THEN LET df == read_csv(f.raw)
            IN IF df.raised
               THEN Return("Could not parse CSV file: " \o df.value)
               ELSE Return(to_csv(df.value))
       ELSE IF EndsWith(fname, ".xlsx") \/ EndsWith(fname, ".xls")
       THEN LET df == read_excel(f.raw)
            IN IF df.raised THEN Raise(df.value) ELSE Return(to_csv(df.value))
       ELSE Return(Utf8Decode(f.raw))

extract_text_from_uploaded_file(f) ==
    LET fname == Lower(f.name)
    IN IF EndsWith(fname, ".txt") \/ EndsWith(fname, ".md")
       THEN Return(Utf8Decode(f.raw))
       ELSE IF EndsWith(fname, ".csv")
       THEN LET df == read_csv(f.raw)
            IN IF df.raised
               THEN Return("Could not parse CSV file: " \o df.value)
               ELSE Return(to_csv(df.value))
       ELSE IF EndsWith(fname, ".xlsx") \/ EndsWith(fname, ".xls")
       THEN LET df == read_excel(f.raw)
            IN IF df.raised
               THEN Return("Could not parse Excel file: " \o df.value)
               ELSE Return(to_csv(df.value))
       ELSE Return(Utf8Decode(f.raw))

\* st.file_uploader(type=("txt", "csv", "xlsx")) (lines 98-102): the extension
\* filter is case-insensitive
Uploadable(name) ==
    \/ EndsWith(Lower(name), ".txt")
    \/ EndsWith(Lower(name), ".csv")
    \/ EndsWith(Lower(name), ".xlsx")

UploadFiles == {f \in AllFiles : Uploadable(f.name)}

(***************************************************************************)
(* The chat-completion collaborator.  It answers a request by failing at   *)
(* creation, or by a stream of text fragments that ends or fails.  The     *)
(* fragments of a reply are the first few of ReplyFragments.               *)
(***************************************************************************)
ReplyFragments == <<"Rest", " and", " drink", " water">>

Errors == {"auth error"}

Prompts == {"What is flu?"}

Questions == {"Summarize"}

Keys == {"sk-1"}

FragmentCounts == 0..Min(MaxFragments, Len(ReplyFragments))

Outcomes ==
    {[created |-> FALSE, fragments |-> <<>>, error |-> e] : e \in Errors}
    \cup {[created |-> TRUE, fragments |-> SubSeq(ReplyFragments, 1, k), error |-> None] :
            k \in FragmentCounts}
    \cup {[created |-> TRUE, fragments |-> SubSeq(ReplyFragments, 1, k), error |-> e] :
            k \in FragmentCounts, e \in Errors}

NoStream == [created |-> FALSE, fragments |-> <<>>, error |-> None]

\* st.write_stream(stream) (lines 142, 191): renders the fragments as they arrive
\* and returns them assembled; an error of the stream gets out of it
RECURSIVE Assemble(_)
Assemble(fragments) ==
    IF Len(fragments) = 0 THEN "" ELSE Head(fragments) \o Assemble(Tail(fragments))

write_stream_last_only(s) ==
    IF s.error # None THEN Raise(s.error)
    ELSE Return(IF Len(s.fragments) = 0 THEN "" ELSE s.fragments[Len(s.fragments)])

write_stream(s) ==
    IF s.error # None THEN Raise(s.error) ELSE Return(Assemble(s.fragments))

\* client.chat.completions.create(...) followed by st.write_stream(stream): the
\* body of the try blocks (lines 136-142 and 185-191)
CreateAndStream(o) ==
    IF ~o.created THEN Raise(o.error) ELSE write_stream(o)

(***************************************************************************)
(* The script (lines 22-197).                                              *)
(***************************************************************************)
DocSystemMessage ==
    Message("system",
            "You are a helpful assistant that answers questions about an uploaded document.")

ChatSystemMessage ==
    Message("system",
            "You are a helpful medical awareness assistant. "
            \o "Provide reliable health information in simple language. "
            \o "Always remind users to consult a doctor for actual medical advice.")

DocMessages_with_history(full_doc_text, q) ==
    (IF has_messages THEN disease_messages ELSE <<DocSystemMessage>>)
    \o << Message("user", "Here's a document:\n\n" \o full_doc_text \o "\n\n---\n\n" \o q) >>

\* lines 128-131
DocMessages(full_doc_text, q) ==
    << DocSystemMessage,
       Message("user", "Here's a document:\n\n" \o full_doc_text \o "\n\n---\n\n" \o q) >>

\* `if not openai_api_key:` (line 31)
KeyMissing_never(key) == FALSE

KeyMissing(key) == key = ""

\* `except Exception as e:` of the chat turn (lines 192-194): the error is caught
\* and becomes the reply text
ChatExcept_drop_description(e) ==
    [escaped |-> FALSE, response_text |-> "Error while generating response"]

ChatExcept(e) ==
    [escaped |-> FALSE, response_text |-> "Error while generating response: " \o e]

Resting == {"Stopped", "Idle", "Raised"}

PcValues == Resting \cup {"DocAwaiting", "AwaitingResponse", "Completed", "Failed"}

\* The widgets below the key guard exist on the page only when the last run went
\* past the guard (lines 31-33 come before lines 98, 117 and 177).
WidgetsRendered == pc = "Idle"

ChatTab_reset(p) ==
    LET base == <<ChatSystemMessage>>
    IN /\ has_messages' = TRUE
       /\ IF p # None
          THEN /\ disease_messages' = Append(base, Message("user", p))
               /\ chat_outbound' = Append(base, Message("user", p))
               /\ chat_requests' = 1
               /\ turn_base' = Len(base)
               /\ pc' = "AwaitingResponse"
          ELSE /\ disease_messages' = base
               /\ chat_outbound' = <<>>
               /\ chat_requests' = 0
               /\ turn_base' = 0
               /\ pc' = "Idle"

\* The chatbot tab (lines 152-197) up to the request of line 185, for the
\* chat_input value p.
ChatTab(p) ==
    LET base == IF has_messages THEN disease_messages ELSE <<ChatSystemMessage>>
    IN /\ has_messages' = TRUE
       /\ IF p # None
          THEN /\ disease_messages' = Append(base, Message("user", p))
               /\ chat_outbound' = Append(base, Message("user", p))
               /\ chat_requests' = 1
               /\ turn_base' = Len(base)
               /\ pc' = "AwaitingResponse"
          ELSE /\ disease_messages' = base
               /\ chat_outbound' = <<>>
               /\ chat_requests' = 0
               /\ turn_base' = 0
               /\ pc' = "Idle"

\* The document tab (lines 89-147) up to the request of line 136, and the chatbot
\* tab after it when no document question is asked.
DocTab(file, q, p) ==
    LET ex == IF file # NoFile THEN extract_text_from_uploaded_file(file) ELSE Return("")
    IN /\ ingests' = IF file # NoFile THEN 1 ELSE 0
       /\ doc_status' = "none"
       /\ IF ex.raised
          THEN /\ pc' = "Raised"
               /\ document_text' = ""
               /\ doc_outbound' = <<>>
               /\ doc_requests' = 0
               /\ chat_outbound' = <<>>
               /\ chat_requests' = 0
               /\ turn_base' = 0
               /\ UNCHANGED <<has_messages, disease_messages>>
          ELSE /\ document_text' = ex.value
               /\ IF file # NoFile /\ q # ""
                  THEN /\ doc_outbound' =
                            DocMessages(trim_text_for_prompt(ex.value, DefaultMaxChars), q)
                       /\ doc_requests' = 1
                       /\ pc' = "DocAwaiting"
                       /\ chat_outbound' = <<>>
                       /\ chat_requests' = 0
                       /\ turn_base' = 0
                       /\ UNCHANGED <<has_messages, disease_messages>>
                  ELSE /\ doc_outbound' = <<>>
                       /\ doc_requests' = 0
                       /\ ChatTab(p)

\* One script run from the top (line 13) with the widget values given, up to its
\* first request, its st.stop() or its end.
Script(key, file, q, p, why) ==
    /\ openai_api_key' = key
    /\ uploaded_file' = file
    /\ question' = q
    /\ prompt' = p
    /\ trigger' = why
    /\ response_text' = ""
    /\ stream' = NoStream
    /\ turn_result' = "none"
    /\ UNCHANGED <<turns, last_failure, tvars>>
    /\ IF KeyMissing(key)
       THEN /\ pc' = "Stopped"
            /\ document_text' = ""
            /\ doc_outbound' = <<>>
            /\ chat_outbound' = <<>>
            /\ doc_status' = "none"
            /\ doc_requests' = 0
            /\ chat_requests' = 0
            /\ ingests' = 0
            /\ turn_base' = 0
            /\ UNCHANGED <<has_messages, disease_messages>>
       ELSE DocTab(file, q, p)

(***************************************************************************)
(* User interactions: each one starts a script run.                        *)
(***************************************************************************)
\* the sidebar key field is edited (line 24).  Streamlit coalesces the widget
\* changes that reach it before a run starts, so a chat prompt submitted from
\* the page of the last run may arrive with the key edit (p is then a text).
EnterKey(key, p) ==
    /\ pc \in Resting
    /\ key # openai_api_key
    /\ p # None => (WidgetsRendered /\ turns < MaxTurns)
    /\ Script(key, uploaded_file, question, p, "key")

\* a file is chosen in the uploader (line 98)
Upload(file) ==
    /\ WidgetsRendered
    /\ file # uploaded_file
    /\ Script(openai_api_key, file, question, None, "upload")

\* the uploaded file is removed from the uploader
RemoveFile ==
    /\ WidgetsRendered
    /\ uploaded_file # NoFile
    /\ Script(openai_api_key, NoFile, question, None, "remove")

\* the question box is edited; it is disabled without a file (lines 117-121)
AskQuestion(q) ==
    /\ WidgetsRendered
    /\ uploaded_file # NoFile
    /\ q # question
    /\ Script(openai_api_key, uploaded_file, q, None, "question")

\* a chat prompt is submitted (line 177)
SubmitPrompt(p) ==
    /\ WidgetsRendered
    /\ turns < MaxTurns
    /\ Script(openai_api_key, uploaded_file, question, p, "prompt")

(***************************************************************************)
(* The collaborator answers.                                               *)
(***************************************************************************)
\* lines 135-147, then the chatbot tab
DocRespond(o) ==
    /\ pc = "DocAwaiting"
    /\ stream' = o
    /\ LET r == CreateAndStream(o)
       IN doc_status' = IF r.raised THEN "error"
                        ELSE IF r.value # "" THEN "success" ELSE "silent"
    /\ ChatTab(prompt)
    /\ UNCHANGED <<openai_api_key, uploaded_file, question, prompt, document_text,
                   response_text, doc_outbound, doc_requests, ingests, trigger,
                   turn_result, turns, last_failure, tvars>>

\* lines 184-194
ChatRespond(o) ==
    /\ pc = "AwaitingResponse"
    /\ stream' = o
    /\ LET r == CreateAndStream(o)
           h == ChatExcept(r.value)
       IN IF ~r.raised
          THEN /\ response_text' = r.value
               /\ pc' = "Completed"
          ELSE IF h.escaped
          THEN /\ response_text' = ""
               /\ pc' = "Raised"
          ELSE /\ response_text' = h.response_text
               /\ pc' = "Failed"
    /\ UNCHANGED <<openai_api_key, uploaded_file, question, prompt, has_messages,
                   disease_messages, document_text, doc_outbound, chat_outbound,
                   doc_status, doc_requests, chat_requests, ingests, trigger,
                   turn_result, turn_base, turns, last_failure, tvars>>

AppendReply_retry ==
    /\ pc \in {"Completed", "Failed"}
    /\ IF pc = "Failed" /\ chat_requests < 2
       THEN /\ pc' = "AwaitingResponse"
            /\ chat_requests' = chat_requests + 1
            /\ UNCHANGED <<disease_messages, turn_result, turns, last_failure>>
       ELSE /\ disease_messages' =
                   Append(disease_messages, Message("assistant", response_text))
            /\ turn_result' = pc
            /\ turns' = turns + 1
            /\ last_failure' = IF pc = "Failed"
                               THEN [at |-> Len(disease_messages) + 1, error |-> stream.error]
                               ELSE last_failure
            /\ pc' = "Idle"
            /\ UNCHANGED chat_requests
    /\ UNCHANGED <<openai_api_key, uploaded_file, question, prompt, has_messages,
                   document_text, response_text, doc_outbound, chat_outbound, stream,
                   doc_status, doc_requests, ingests, trigger, turn_base, tvars>>

AppendReply_skip_failed ==
    /\ pc \in {"Completed", "Failed"}
    /\ disease_messages' = IF pc = "Failed" THEN disease_messages
                           ELSE Append(disease_messages, Message("assistant", response_text))
    /\ turn_result' = pc
    /\ turns' = turns + 1
    /\ UNCHANGED last_failure
    /\ pc' = "Idle"
    /\ UNCHANGED <<openai_api_key, uploaded_file, question, prompt, has_messages,
                   document_text, response_text, doc_outbound, chat_outbound, stream,
                   doc_status, doc_requests, chat_requests, ingests, trigger,
                   turn_base, tvars>>

\* line 197, and the end of the run
AppendReply ==
    /\ pc \in {"Completed", "Failed"}
    /\ disease_messages' = Append(disease_messages, Message("assistant", response_text))
    /\ turn_result' = pc
    /\ turns' = turns + 1
    /\ last_failure' = IF pc = "Failed"
                       THEN [at |-> Len(disease_messages) + 1, error |-> stream.error]
                       ELSE last_failure
    /\ pc' = "Idle"
    /\ UNCHANGED <<openai_api_key, uploaded_file, question, prompt, has_messages,
                   document_text, response_text, doc_outbound, chat_outbound, stream,
                   doc_status, doc_requests, chat_requests, ingests, trigger,
                   turn_base, tvars>>

NoFailure == [at |-> 0, error |-> None]

\* A new session: the first run finds no key and stops at line 33.
SessionInit ==
    /\ pc = "Stopped"
    /\ openai_api_key = ""
    /\ uploaded_file = NoFile
    /\ question = ""
    /\ prompt = None
    /\ has_messages = FALSE
    /\ disease_messages = <<>>
    /\ document_text = ""
    /\ response_text = ""
    /\ doc_outbound = <<>>
    /\ chat_outbound = <<>>
    /\ stream = NoStream
    /\ doc_status = "none"
    /\ doc_requests = 0
    /\ chat_requests = 0
    /\ ingests = 0
    /\ trigger = "open"
    /\ turn_result = "none"
    /\ turn_base = 0
    /\ turns = 0
    /\ last_failure = NoFailure

Init ==
    /\ SessionInit
    /\ t_text = ""
    /\ t_max = 0
    /\ t_out = ""
    /\ t_called = FALSE

Next ==
    \/ \E key \in Keys \cup {""}, p \in Prompts \cup {None} : EnterKey(key, p)
    \/ \E file \in UploadFiles : Upload(file)
    \/ RemoveFile
    \/ \E q \in Questions \cup {""} : AskQuestion(q)
    \/ \E p \in Prompts : SubmitPrompt(p)
    \/ \E o \in Outcomes : DocRespond(o)
    \/ \E o \in Outcomes : ChatRespond(o)
    \/ AppendReply

Spec == Init /\ [][Next]_vars

\* The script runs on once the collaborator has answered, and the collaborator's
\* stream is finite: it ends or fails.
FairSpec ==
    /\ Spec
    /\ WF_vars(\E o \in Outcomes : DocRespond(o))
    /\ WF_vars(\E o \in Outcomes : ChatRespond(o))
    /\ WF_vars(AppendReply)

(***************************************************************************)
(* trim_text_for_prompt called directly, on every short text and every     *)
(* small max_chars.                                                        *)
(***************************************************************************)
Chars == {"a", "b"}

RECURSIVE TextsUpTo(_)
TextsUpTo(n) ==
    IF n = 0 THEN {""}
    ELSE TextsUpTo(n - 1) \cup {t \o c : t \in TextsUpTo(n - 1), c \in Chars}

InitTrim ==
    /\ SessionInit
    /\ t_text \in TextsUpTo(MaxTextLen)
    /\ t_max \in -1..(MaxTextLen + 1)
    /\ t_out = ""
    /\ t_called = FALSE

TrimCall ==
    /\ ~t_called
    /\ t_out' = trim_text_for_prompt(t_text, t_max)
    /\ t_called' = TRUE
    /\ UNCHANGED <<svars, t_text, t_max>>

NextTrim == TrimCall

SpecTrim == InitTrim /\ [][NextTrim]_vars

(***************************************************************************)
(* Properties.                                                             *)
(***************************************************************************)
Last(seq) == seq[Len(seq)]

\* s.startswith(prefix)
StartsWith(s, prefix) ==
    /\ Len(s) >= Len(prefix)
    /\ SubSeq(s, 1, Len(prefix)) = prefix

\* part in s
Contains(s, part) ==
    \E i \in 0..(Len(s) - Len(part)) : SubSeq(s, i + 1, i + Len(part)) = part

TotalRequests == doc_requests + chat_requests

InTurn == pc \in {"AwaitingResponse", "Completed", "Failed"}

\* C1: for every text and every max >= 0, trim_text_for_prompt(text, max) is
\* text itself when len(text) <= max; otherwise it is the first max characters
\* of text followed by the truncation marker, max + len(marker) characters long.
C1_TrimContract ==
    (t_called /\ t_max >= 0) =>
        IF Len(t_text) <= t_max
        THEN t_out = t_text
        ELSE /\ Len(t_out) = t_max + Len(TruncationMarker)
             /\ SubSeq(t_out, 1, t_max) = SubSeq(t_text, 1, t_max)
             /\ SubSeq(t_out, t_max + 1, Len(t_out)) = "\n\n...[truncated]"

C1_Witness ==
    /\ t_called
    /\ t_max = 2
    /\ Len(t_text) = 3
    /\ Len(t_out) = 18

\* C2: once the transcript exists, its first message has role system, and
\* every step keeps it in existence, never shortens it and leaves every message
\* already in it at its position with its role and content.
C2_TranscriptAppendOnly ==
    /\ [](has_messages => disease_messages[1].role = "system")
    /\ [][has_messages =>
            /\ has_messages'
            /\ Len(disease_messages') >= Len(disease_messages)
            /\ SubSeq(disease_messages', 1, Len(disease_messages)) = disease_messages]_vars

C2_Witness ==
    /\ pc = "Idle"
    /\ Len(disease_messages) = 5
    /\ last_failure.at = 3
    /\ trigger = "question"
    /\ doc_requests = 1

RECURSIVE InArrivalOrder(_)
InArrivalOrder(fragments) ==
    IF Len(fragments) = 0 THEN ""
    ELSE InArrivalOrder(SubSeq(fragments, 1, Len(fragments) - 1)) \o Last(fragments)

\* C3: a chat turn submitted at n transcript messages sends n+1 messages, the
\* transcript followed by the new user message; when the call succeeds the
\* transcript gets exactly one more message, n+2 in all, an assistant message
\* whose content is the streamed fragments concatenated in arrival order.
C3_ChatTurnMessages ==
    [][ /\ (~InTurn /\ pc' = "AwaitingResponse") =>
              /\ has_messages
              /\ turn_base' = Len(disease_messages)
              /\ Len(chat_outbound') = Len(disease_messages) + 1
              /\ chat_outbound' = Append(disease_messages, Message("user", prompt'))
        /\ pc = "Completed" =>
              /\ Len(disease_messages') = turn_base + 2
              /\ SubSeq(disease_messages', 1, turn_base + 1) = chat_outbound
              /\ Last(disease_messages') =
                    Message("assistant", InArrivalOrder(stream.fragments)) ]_vars

C3_Witness ==
    /\ pc = "Idle"
    /\ turn_result = "Completed"
    /\ turn_base = 3
    /\ Len(stream.fragments) = 2
    /\ Len(disease_messages) = 5

\* C4: a failure of the collaborator during a chat turn, at creation or in the
\* stream, never escapes the run; the turn ends Failed, the transcript then ends
\* with an assistant message whose content contains the failure description,
\* and that message is in the list the next chat turn sends.
C4_FailureBecomesReply ==
    /\ pc # "Raised"
    /\ pc = "Completed" => stream.error = None
    /\ pc = "Failed" => stream.error \in Errors
    /\ (pc = "Idle" /\ turn_result = "Failed") =>
          /\ Last(disease_messages).role = "assistant"
          /\ Contains(Last(disease_messages).content, stream.error)
          /\ last_failure = [at |-> Len(disease_messages), error |-> stream.error]
    /\ (pc = "AwaitingResponse" /\ last_failure.at # 0) =>
          /\ last_failure.at <= Len(chat_outbound)
          /\ chat_outbound[last_failure.at].role = "assistant"
          /\ Contains(chat_outbound[last_failure.at].content, last_failure.error)

C4_Witness ==
    /\ pc = "AwaitingResponse"
    /\ last_failure.at = 3
    /\ Len(chat_outbound) = 4
    /\ Contains(chat_outbound[3].content, "auth error")

ParseFails(f) ==
    \/ EndsWith(Lower(f.name), ".csv") /\ read_csv(f.raw).raised
    \/ (EndsWith(Lower(f.name), ".xlsx") \/ EndsWith(Lower(f.name), ".xls"))
          /\ read_excel(f.raw).raised

\* C5: extract_text_from_uploaded_file lets no exception out, whatever the name
\* and the bytes; for a .csv or .xlsx/.xls file that does not parse it returns
\* a text beginning with "Could not parse", and the document flow goes on with
\* that text as the document.
C5_ExtractNeverRaises ==
    /\ \A f \in AllFiles :
          LET r == extract_text_from_uploaded_file(f)
          IN /\ ~r.raised
             /\ ParseFails(f) => StartsWith(r.value, "Could not parse")
    /\ pc # "Raised"
    /\ (ingests = 1 /\ ParseFails(uploaded_file)) =>
          /\ StartsWith(document_text, "Could not parse")
          /\ question # "" => doc_requests = 1
          /\ pc = "DocAwaiting" =>
                doc_outbound[2].content =
                    "Here's a document:\n\n" \o document_text \o "\n\n---\n\n" \o question

C5_Witness ==
    /\ pc = "DocAwaiting"
    /\ uploaded_file.name = "book.xlsx"
    /\ StartsWith(document_text, "Could not parse Excel file: ")
    /\ Contains(doc_outbound[2].content, "Could not parse Excel file: ")

\* C6: a document question sends a fresh list of exactly two messages, the fixed
\* system message and one user message made of the truncated document text, the
\* separator and the question; issuing it leaves the transcript as it is, and
\* when it is answered or fails the transcript changes only as the chatbot tab
\* of the same run changes it: nothing of the document exchange is appended.
C6_DocumentQuestionStateless ==
    /\ [](pc = "DocAwaiting" =>
            /\ Len(doc_outbound) = 2
            /\ doc_outbound[1] = DocSystemMessage
            /\ doc_outbound[2] =
                  Message("user",
                          "Here's a document:\n\n"
                          \o trim_text_for_prompt(document_text, DefaultMaxChars)
                          \o "\n\n---\n\n" \o question))
    /\ [][ /\ pc' = "DocAwaiting" => UNCHANGED <<has_messages, disease_messages>>
           /\ (pc = "DocAwaiting" /\ has_messages) =>
                 disease_messages' =
                     IF prompt = None THEN disease_messages
                     ELSE Append(disease_messages, Message("user", prompt)) ]_vars

C6_Witness ==
    /\ pc = "Idle"
    /\ trigger = "question"
    /\ doc_status = "error"
    /\ doc_requests = 1
    /\ Len(disease_messages) = 3

\* C7: with an empty API key the run stops at the guard: it issues no request
\* in either tab, ingests no document, and leaves the transcript neither
\* created nor modified, whatever file, question or chat prompt it is given.
C7_NoKeyNoCall ==
    /\ [](openai_api_key = "" =>
            /\ pc = "Stopped"
            /\ TotalRequests = 0
            /\ ingests = 0
            /\ doc_outbound = <<>>
            /\ chat_outbound = <<>>)
    /\ [][openai_api_key' = "" => UNCHANGED <<has_messages, disease_messages>>]_vars

C7_Witness ==
    /\ pc = "Stopped"
    /\ openai_api_key = ""
    /\ uploaded_file # NoFile
    /\ question # ""
    /\ prompt # None
    /\ has_messages

\* C8: a script run that a chat prompt triggers issues exactly one request to
\* the collaborator, and so does a run that a document question triggers,
\* whatever file, question and prompt the session holds.
C8_OneRequestPerAction ==
    /\ (pc = "Idle" /\ prompt # None) => TotalRequests = 1
    /\ (pc = "Idle" /\ trigger = "question" /\ question # "") => TotalRequests = 1

TurnPhase(at) == IF at \in {"AwaitingResponse", "Completed", "Failed"} THEN at ELSE "Idle"

TurnSteps ==
    { <<"Idle", "Idle">>, <<"Idle", "AwaitingResponse">>,
      <<"AwaitingResponse", "Completed">>, <<"AwaitingResponse", "Failed">>,
      <<"Completed", "Idle">>, <<"Failed", "Idle">> }

\* C9: a chat turn goes Idle -> AwaitingResponse -> Completed or Failed -> Idle:
\* a turn awaiting its response eventually completes or fails and then returns
\* to Idle, and a turn issues one request only, also after a failure.
C9_TurnStateMachine ==
    /\ [][TurnPhase(pc') # TurnPhase(pc) => <<TurnPhase(pc), TurnPhase(pc')>> \in TurnSteps]_vars
    /\ (pc = "AwaitingResponse") ~> (pc \in {"Completed", "Failed"})
    /\ (pc \in {"Completed", "Failed"}) ~> (pc = "Idle")
    /\ [](chat_requests <= 1)
    /\ [][pc = "Failed" => (pc' = "Idle" /\ chat_requests' = chat_requests)]_vars

C9_Witness ==
    /\ pc = "Idle"
    /\ turn_result = "Failed"
    /\ chat_requests = 1
    /\ turns = 2

\* C10: while no chat turn is in flight, the transcript has 1 + 2k messages for
\* k finished turns: the system message, then user and assistant alternating.
C10_RolesAlternate ==
    (has_messages /\ ~InTurn) =>
        /\ Len(disease_messages) = 1 + 2 * turns
        /\ \A i \in 1..Len(disease_messages) :
              disease_messages[i].role =
                  IF i = 1 THEN "system" ELSE IF i % 2 = 0 THEN "user" ELSE "assistant"

C10_Witness ==
    /\ pc = "Idle"
    /\ turns = 2
    /\ last_failure.at = 3
    /\ turn_result = "Completed"
    /\ Len(disease_messages) = 5

====
